---- MODULE Spec2Model ----
(***************************************************************************)
(* OBRAX QUANTUM - Sprint 0: the PCC / FVS / NC request handlers of        *)
(* src/api_sprint0.py over the relational store.                           *)
(*                                                                         *)
(* The committed database is status (activities.status), pcc_log, fvs_log  *)
(* and nc_log.  Each handler invocation runs in its own SQLAlchemy session *)
(* (get_db, src/database.py:31-37, autocommit=False, autoflush=False): it  *)
(* is a process p whose steps are its database round trips, the query, the *)
(* flush and the commit.  What a session has added or flushed but not      *)
(* committed lives in the per-process variables only.                      *)
(*                                                                         *)
(* Not modelled: the payload columns the handlers only copy (service_id,   *)
(* atividade_id, equipe_id, observations, timestamps), the response body   *)
(* beyond its HTTP status code, and the list_* / dev_seed endpoints.       *)
(***************************************************************************)
EXTENDS Integers, Sequences, FiniteSets, TLC

\* ---------------------------------------------------------------- bounds
NumTasks == 2
NumProcs == 2
NumObras == 1
MaxRequests == 2

\* Stored activities have ids 1..NumTasks; MissingTaskId names no activity.
TaskIds == 1..NumTasks
MissingTaskId == NumTasks + 1
Procs == 1..NumProcs
ObraIds == 1..NumObras

\* ------------------------------------------------------------ enumerations
FVSStatus == {"PASS", "FAIL"}
NoTask == "None"
ValueError == "ValueError"
NoResult == "NA"

HTTP_OK == 200
HTTP_BAD_REQUEST == 400
HTTP_NOT_FOUND == 404
HTTP_SERVER_ERROR == 500

\* The request bodies: EventPCCCreate and EventFVSCreate.
EventPCCCreate == [kind : {"pcc"}, task_id : TaskIds \cup {MissingTaskId},
                   obra_id : {0}, status : {NoResult}]
EventFVSCreate == [kind : {"fvs"}, task_id : TaskIds \cup {MissingTaskId},
                   obra_id : ObraIds, status : FVSStatus]
NoEvent == [kind |-> "none", task_id |-> 0, obra_id |-> 0, status |-> NoResult]
NoLast == [kind |-> "none", task_id |-> 0, code |-> 0]

\* The statuses dev_seed creates activities with
\* (src/api_sprint0.py:236,244,252).
SeedStatus == {"PCC_REQUIRED", "READY", "INSPECTION_PENDING"}

VARIABLES
    status,       \* committed activities.status, by activity id
    pcc_log,      \* committed events_pcc rows, in commit order
    fvs_log,      \* committed events_fvs rows, in commit order
    nc_log,       \* committed events_nc rows, in commit order
    next_fvs_id,  \* the next primary key of events_fvs
    pc,           \* each invocation's position in its handler
    req,          \* each invocation's request body
    task,         \* each session's loaded Activity.status (identity map)
    fvs_id,       \* each session's flushed fvs_event.id
    last,         \* the latest response sent: who, to which request, its code
    started       \* requests received so far

db == <<status, pcc_log, fvs_log, nc_log>>
vars == <<status, pcc_log, fvs_log, nc_log, next_fvs_id,
          pc, req, task, fvs_id, last, started>>

\* ------------------------------------------------------------------ helpers

\* A variant that moves the activity on to READY instead.
get_next_status_after_pcc_Ready(current_status) ==
    IF current_status # "PCC_REQUIRED" THEN ValueError ELSE "READY"

\* get_next_status_after_pcc (src/api_sprint0.py:38-41)
get_next_status_after_pcc(current_status) ==
    IF current_status # "PCC_REQUIRED" THEN ValueError ELSE "PCC_CONFIRMED"

\* A variant that ignores the inspection result.
get_next_status_after_fvs_AlwaysPass(current_status, fvs_result) ==
    IF current_status # "INSPECTION_PENDING" THEN ValueError
    ELSE "INSPECTED_PASS"

\* A variant with the two branches of the result exchanged.
get_next_status_after_fvs_Swapped(current_status, fvs_result) ==
    IF current_status # "INSPECTION_PENDING" THEN ValueError
    ELSE IF fvs_result = "PASS" THEN "INSPECTED_FAIL" ELSE "INSPECTED_PASS"

\* get_next_status_after_fvs (src/api_sprint0.py:44-51)
get_next_status_after_fvs(current_status, fvs_result) ==
    IF current_status # "INSPECTION_PENDING" THEN ValueError
    ELSE IF fvs_result = "PASS" THEN "INSPECTED_PASS" ELSE "INSPECTED_FAIL"

\* A variant whose query has lost its filter: .first() of the whole table.
QueryActivity_NoFilter(task_id) == status[1]

\* db.query(Activity).filter(Activity.id == task_id).first(): the committed
\* row's status, or None.  A plain SELECT: no FOR UPDATE, no row lock.
QueryActivity(task_id) ==
    IF task_id \in DOMAIN status THEN status[task_id] ELSE NoTask

\* Variants of the guards: one lets READY through, one treats a repeated
\* confirmation as acceptable, one lets an already inspected activity through.
PccPreconditionFails_Ready(task_status) ==
    task_status \notin {"PCC_REQUIRED", "READY"}
PccPreconditionFails_Repeat(task_status) ==
    task_status \notin {"PCC_REQUIRED", "PCC_CONFIRMED"}
FvsPreconditionFails_Reinspect(task_status) ==
    task_status \notin {"INSPECTION_PENDING", "INSPECTED_FAIL", "READY"}

\* The guard of confirm_pcc (line 75).
PccPreconditionFails(task_status) == task_status # "PCC_REQUIRED"

\* The guard of inspect_fvs (line 126).
FvsPreconditionFails(task_status) == task_status # "INSPECTION_PENDING"

\* A variant that reads the committed row again before the transition.
TaskStatusAtTransition_Refreshed(p) == status[req[p].task_id]

\* task.status as lines 93 and 158 read it: the attribute of the object the
\* session loaded at the query; nothing has expired or refreshed it since.
TaskStatusAtTransition(p) == task[p]

\* EventPCC(...) of lines 81-90, with the primary key the commit assigns.
NewEventPCC(event, id) ==
    [id |-> id, task_id |-> event.task_id, confirmed_flag |-> 1]

\* EventFVS(...) of lines 132-141, with the primary key the flush assigned.
NewEventFVS(event, id) ==
    [id |-> id, task_id |-> event.task_id, obra_id |-> event.obra_id,
     status |-> event.status]

\* A variant that opens an NC for every inspection.
NeedsNC_Always(event) == TRUE

\* The condition of line 146.
NeedsNC(event) == event.status = "FAIL"

\* A variant that takes the FVS key from the table's row count.
NewEventNC_ByCount(event, flushed_fvs_id, id) ==
    [id |-> id, task_id |-> event.task_id, obra_id |-> event.obra_id,
     fvs_id |-> Len(fvs_log) + 1, origin |-> "FVS", status |-> "ABERTA"]

\* EventNC(...) of lines 147-155.
NewEventNC(event, flushed_fvs_id, id) ==
    [id |-> id, task_id |-> event.task_id, obra_id |-> event.obra_id,
     fvs_id |-> flushed_fvs_id, origin |-> "FVS", status |-> "ABERTA"]

\* A variant in which the flush is visible at once (an autocommit session).
FlushedFvsLog_Autocommit(p) ==
    Append(fvs_log, NewEventFVS(req[p], next_fvs_id))

\* db.flush() at line 143 sends the INSERT inside the open transaction: the
\* row gets its primary key, and the committed table is what it was.
FlushedFvsLog(p) == fvs_log

\* What the COMMIT of inspect_fvs makes visible in events_fvs and events_nc.
CommittedFvsLog(p) == Append(fvs_log, NewEventFVS(req[p], fvs_id[p]))
CommittedNcLog(p) ==
    IF NeedsNC(req[p])
    THEN Append(nc_log, NewEventNC(req[p], fvs_id[p], Len(nc_log) + 1))
    ELSE nc_log

\* What the COMMIT of confirm_pcc makes visible in events_pcc.
CommittedPccLog(p) == Append(pcc_log, NewEventPCC(req[p], Len(pcc_log) + 1))

\* The invocation ends: the response goes out with its status code, get_db
\* closes the session, and the worker is free for the next request.
Finish(p, event, code) ==
    /\ pc' = [pc EXCEPT ![p] = "idle"]
    /\ req' = [req EXCEPT ![p] = NoEvent]
    /\ task' = [task EXCEPT ![p] = NoTask]
    /\ fvs_id' = [fvs_id EXCEPT ![p] = 0]
    /\ last' = [kind |-> event.kind, task_id |-> event.task_id, code |-> code]

\* -------------------------------------------------------------------- Init
\* The activities exist with the statuses the seeds give them
\* (dev_seed: PCC_REQUIRED, READY, INSPECTION_PENDING; init_db: PLANNED);
\* the event tables are empty and no request is running.
Init ==
    /\ status \in [TaskIds -> SeedStatus]
    /\ pcc_log = <<>>
    /\ fvs_log = <<>>
    /\ nc_log = <<>>
    /\ next_fvs_id = 1
    /\ pc = [p \in Procs |-> "idle"]
    /\ req = [p \in Procs |-> NoEvent]
    /\ task = [p \in Procs |-> NoTask]
    /\ fvs_id = [p \in Procs |-> 0]
    /\ last = NoLast
    /\ started = 0

\* ----------------------------------------------------------------- actions

\* confirm_pcc, lines 71-91: the query, the two guards and db.add.
ConfirmPccQuery(p, event) ==
    /\ pc[p] = "idle"
    /\ started < MaxRequests
    /\ started' = started + 1
    /\ UNCHANGED <<db, next_fvs_id>>
    /\ LET t == QueryActivity(event.task_id) IN
       IF t = NoTask THEN Finish(p, event, HTTP_NOT_FOUND)
       ELSE IF PccPreconditionFails(t) THEN Finish(p, event, HTTP_BAD_REQUEST)
       ELSE /\ pc' = [pc EXCEPT ![p] = "pcc_added"]
            /\ req' = [req EXCEPT ![p] = event]
            /\ task' = [task EXCEPT ![p] = t]
            /\ UNCHANGED <<fvs_id, last>>

\* confirm_pcc, lines 93-104: the transition and the commit.
ConfirmPccCommit(p) ==
    /\ pc[p] = "pcc_added"
    /\ LET next == get_next_status_after_pcc(TaskStatusAtTransition(p)) IN
       IF next = ValueError
       THEN /\ Finish(p, req[p], HTTP_SERVER_ERROR)
            /\ UNCHANGED db
       ELSE /\ pcc_log' = CommittedPccLog(p)
            /\ status' = [status EXCEPT ![req[p].task_id] = next]
            /\ UNCHANGED <<fvs_log, nc_log>>
            /\ Finish(p, req[p], HTTP_OK)
    /\ UNCHANGED <<next_fvs_id, started>>

\* inspect_fvs, lines 122-142: the query, the two guards and db.add.
InspectFvsQuery(p, event) ==
    /\ pc[p] = "idle"
    /\ started < MaxRequests
    /\ started' = started + 1
    /\ UNCHANGED <<db, next_fvs_id>>
    /\ LET t == QueryActivity(event.task_id) IN
       IF t = NoTask THEN Finish(p, event, HTTP_NOT_FOUND)
       ELSE IF FvsPreconditionFails(t) THEN Finish(p, event, HTTP_BAD_REQUEST)
       ELSE /\ pc' = [pc EXCEPT ![p] = "fvs_added"]
            /\ req' = [req EXCEPT ![p] = event]
            /\ task' = [task EXCEPT ![p] = t]
            /\ UNCHANGED <<fvs_id, last>>

\* inspect_fvs, line 143: db.flush() inserts the FVS row in the transaction.
InspectFvsFlush(p) ==
    /\ pc[p] = "fvs_added"
    /\ pc' = [pc EXCEPT ![p] = "fvs_flushed"]
    /\ fvs_id' = [fvs_id EXCEPT ![p] = next_fvs_id]
    /\ next_fvs_id' = next_fvs_id + 1
    /\ fvs_log' = FlushedFvsLog(p)
    /\ UNCHANGED <<status, pcc_log, nc_log, req, task, last, started>>

\* inspect_fvs, lines 145-172: the NC, the transition and the commit.
InspectFvsCommit(p) ==
    /\ pc[p] = "fvs_flushed"
    /\ LET next == get_next_status_after_fvs(TaskStatusAtTransition(p),
                                             req[p].status) IN
       IF next = ValueError
       THEN /\ Finish(p, req[p], HTTP_SERVER_ERROR)
            /\ UNCHANGED db
       ELSE /\ fvs_log' = CommittedFvsLog(p)
            /\ nc_log' = CommittedNcLog(p)
            /\ status' = [status EXCEPT ![req[p].task_id] = next]
            /\ UNCHANGED pcc_log
            /\ Finish(p, req[p], HTTP_OK)
    /\ UNCHANGED <<next_fvs_id, started>>

\* The invocation stops between db.add and db.commit (the connection drops,
\* the worker dies): get_db's finally closes the session (database.py:36-37)
\* and the open transaction is rolled back.
Abort(p) ==
    /\ pc[p] \in {"pcc_added", "fvs_added", "fvs_flushed"}
    /\ Finish(p, req[p], HTTP_SERVER_ERROR)
    /\ UNCHANGED <<db, next_fvs_id, started>>

Next ==
    \/ \E p \in Procs, event \in EventPCCCreate : ConfirmPccQuery(p, event)
    \/ \E p \in Procs : ConfirmPccCommit(p)
    \/ \E p \in Procs, event \in EventFVSCreate : InspectFvsQuery(p, event)
    \/ \E p \in Procs : InspectFvsFlush(p)
    \/ \E p \in Procs : InspectFvsCommit(p)

Spec == Init /\ [][Next]_vars

NextCrash ==
    \/ Next
    \/ \E p \in Procs : Abort(p)

SpecCrash == Init /\ [][NextCrash]_vars

\* One worker process: confirm_pcc and inspect_fvs are async def with no
\* await in their bodies, so on one event loop an invocation runs from its
\* query to its commit before the next request is taken.
NoneRunning == \A q \in Procs : pc[q] = "idle"

NextSeq ==
    \/ \E p \in Procs, event \in EventPCCCreate :
          NoneRunning /\ ConfirmPccQuery(p, event)
    \/ \E p \in Procs : ConfirmPccCommit(p)
    \/ \E p \in Procs, event \in EventFVSCreate :
          NoneRunning /\ InspectFvsQuery(p, event)
    \/ \E p \in Procs : InspectFvsFlush(p)
    \/ \E p \in Procs : InspectFvsCommit(p)

SpecSeq == Init /\ [][NextSeq]_vars

\* ------------------------------------------------- vocabulary of the claims

\* The rows of a table that reference activity t.
RowsOf(log, t) == {i \in 1..Len(log) : log[i].task_id = t}

\* log2 is log1 with exactly one row appended.
OneAppended(log1, log2) ==
    /\ Len(log2) = Len(log1) + 1
    /\ SubSeq(log2, 1, Len(log1)) = log1

\* This step receives a request: some worker runs its query and guards.
Received == started' = started + 1

\* The request received in this step was answered in the same step.
AnsweredAtOnce == Received /\ pc' = pc

\* The request received in this step is of kind k and names task_id t.
ReceivedOn(k, t) ==
    /\ Received
    /\ \/ AnsweredAtOnce /\ last'.kind = k /\ last'.task_id = t
       \/ \E p \in Procs : /\ pc'[p] # pc[p]
                           /\ req'[p].kind = k
                           /\ req'[p].task_id = t

\* This step ends the invocation that worker p was running.
Ends(p) == pc[p] # "idle" /\ pc'[p] = "idle"

\* ------------------------------------------------------------------ claims

\* C1: a confirm_pcc request naming an activity whose status is PCC_REQUIRED
\* is not rejected, writes nothing before its commit, and ends with a 200
\* response, exactly one PCC event appended that references the activity, no
\* FVS or NC row added, and the activity's status equal to PCC_CONFIRMED.
C1_ConfirmPccSucceeds ==
    [][ /\ \A t \in TaskIds :
             (status[t] = "PCC_REQUIRED" /\ ReceivedOn("pcc", t))
                => /\ ~AnsweredAtOnce
                   /\ db' = db
        /\ \A p \in Procs :
             (req[p].kind = "pcc" /\ Ends(p))
                => /\ task[p] = "PCC_REQUIRED"
                   /\ last' = [kind |-> "pcc", task_id |-> req[p].task_id,
                               code |-> HTTP_OK]
                   /\ OneAppended(pcc_log, pcc_log')
                   /\ pcc_log'[Len(pcc_log')].task_id = req[p].task_id
                   /\ fvs_log' = fvs_log
                   /\ nc_log' = nc_log
                   /\ status'[req[p].task_id] = "PCC_CONFIRMED"
      ]_vars

\* C1 witness: a confirm_pcc has just succeeded on an activity that now is
\* PCC_CONFIRMED, with its one PCC event and no FVS or NC row.
C1_Witness ==
    /\ last.kind = "pcc"
    /\ last.code = HTTP_OK
    /\ status[last.task_id] = "PCC_CONFIRMED"
    /\ Cardinality(RowsOf(pcc_log, last.task_id)) = 1
    /\ fvs_log = <<>>
    /\ nc_log = <<>>

\* C2: a confirm_pcc request naming an existing activity whose status is not
\* PCC_REQUIRED is answered 400 at once, and the activity statuses and the
\* PCC, FVS and NC tables are what they were before the request.
C2_ConfirmPccRejected ==
    [][ \A t \in TaskIds :
          (status[t] # "PCC_REQUIRED" /\ ReceivedOn("pcc", t))
             => /\ AnsweredAtOnce
                /\ last'.code = HTTP_BAD_REQUEST
                /\ db' = db
      ]_vars

\* C2 witness: a confirm_pcc was answered 400 for an existing activity that
\* is not in PCC_REQUIRED.
C2_Witness ==
    /\ last.kind = "pcc"
    /\ last.code = HTTP_BAD_REQUEST
    /\ last.task_id \in TaskIds
    /\ status[last.task_id] # "PCC_REQUIRED"

\* The end of an accepted inspect_fvs invocation of worker p, whose result
\* is r: a 200 response, one FVS event appended with that result for the
\* activity, no PCC row.
FvsCommitted(p, r) ==
    /\ task[p] = "INSPECTION_PENDING"
    /\ last' = [kind |-> "fvs", task_id |-> req[p].task_id, code |-> HTTP_OK]
    /\ OneAppended(fvs_log, fvs_log')
    /\ fvs_log'[Len(fvs_log')].task_id = req[p].task_id
    /\ fvs_log'[Len(fvs_log')].status = r
    /\ pcc_log' = pcc_log

\* An inspect_fvs request with result r naming activity t, received while t
\* is INSPECTION_PENDING, is accepted; neither its query nor its flush
\* changes a table or a status.
FvsAccepted(r) ==
    /\ \A t \in TaskIds :
         (status[t] = "INSPECTION_PENDING" /\ ReceivedOn("fvs", t))
            => /\ ~AnsweredAtOnce
               /\ db' = db
    /\ \A p \in Procs :
         (/\ req[p].kind = "fvs" /\ req[p].status = r
          /\ pc[p] = "fvs_added" /\ pc'[p] = "fvs_flushed")
            => db' = db

\* C3: an inspect_fvs request with result FAIL naming an activity whose
\* status is INSPECTION_PENDING creates exactly one FVS event and exactly one
\* NC record (of that FVS event), and the status becomes INSPECTED_FAIL.
C3_InspectFailCreatesNC ==
    [][ /\ FvsAccepted("FAIL")
        /\ \A p \in Procs :
             (req[p].kind = "fvs" /\ req[p].status = "FAIL" /\ Ends(p))
                => /\ FvsCommitted(p, "FAIL")
                   /\ OneAppended(nc_log, nc_log')
                   /\ nc_log'[Len(nc_log')].task_id = req[p].task_id
                   /\ nc_log'[Len(nc_log')].fvs_id = fvs_log'[Len(fvs_log')].id
                   /\ status'[req[p].task_id] = "INSPECTED_FAIL"
      ]_vars

\* C3 witness: an inspection with result FAIL has just succeeded: the
\* activity is INSPECTED_FAIL with one FVS event and one NC record.
C3_Witness ==
    /\ last.kind = "fvs"
    /\ last.code = HTTP_OK
    /\ status[last.task_id] = "INSPECTED_FAIL"
    /\ Len(fvs_log) = 1 /\ fvs_log[1].status = "FAIL"
    /\ fvs_log[1].task_id = last.task_id
    /\ Len(nc_log) = 1 /\ nc_log[1].task_id = last.task_id

\* C4: an inspect_fvs request with result PASS naming an activity whose
\* status is INSPECTION_PENDING creates exactly one FVS event and no NC
\* record, and the status becomes INSPECTED_PASS.
C4_InspectPassNoNC ==
    [][ /\ FvsAccepted("PASS")
        /\ \A p \in Procs :
             (req[p].kind = "fvs" /\ req[p].status = "PASS" /\ Ends(p))
                => /\ FvsCommitted(p, "PASS")
                   /\ nc_log' = nc_log
                   /\ status'[req[p].task_id] = "INSPECTED_PASS"
      ]_vars

\* C4 witness: an inspection with result PASS has just succeeded: the
\* activity is INSPECTED_PASS with one FVS event and no NC record.
C4_Witness ==
    /\ last.kind = "fvs"
    /\ last.code = HTTP_OK
    /\ status[last.task_id] = "INSPECTED_PASS"
    /\ Len(fvs_log) = 1 /\ fvs_log[1].status = "PASS"
    /\ fvs_log[1].task_id = last.task_id
    /\ nc_log = <<>>

\* C5: an inspect_fvs request (PASS or FAIL) naming an existing activity
\* whose status is not INSPECTION_PENDING is answered 400 at once: no FVS
\* event, no NC record, no status change.
C5_InspectRejected ==
    [][ \A t \in TaskIds :
          (status[t] # "INSPECTION_PENDING" /\ ReceivedOn("fvs", t))
             => /\ AnsweredAtOnce
                /\ last'.code = HTTP_BAD_REQUEST
                /\ db' = db
      ]_vars

\* C5 witness: an inspect_fvs was answered 400 for an existing activity
\* that is not in INSPECTION_PENDING.
C5_Witness ==
    /\ last.kind = "fvs"
    /\ last.code = HTTP_BAD_REQUEST
    /\ last.task_id \in TaskIds
    /\ status[last.task_id] # "INSPECTION_PENDING"

\* C6: once a confirm_pcc has succeeded for an activity (its PCC event is in
\* the table), every confirm_pcc request received afterwards for the same
\* activity is answered 400 at once, not 200, and adds no PCC event: the
\* table and the statuses stay what they were.
C6_RepeatConfirmFails ==
    [][ \A t \in TaskIds :
          (RowsOf(pcc_log, t) # {} /\ ReceivedOn("pcc", t))
             => /\ AnsweredAtOnce
                /\ last'.code = HTTP_BAD_REQUEST
                /\ pcc_log' = pcc_log
                /\ status' = status
                /\ status[t] = "PCC_CONFIRMED"
      ]_vars

\* C6 witness: a second confirm_pcc for an activity has just been answered
\* 400 while the table holds the one PCC event of the first.
C6_Witness ==
    /\ last.kind = "pcc"
    /\ last.code = HTTP_BAD_REQUEST
    /\ last.task_id \in TaskIds
    /\ status[last.task_id] = "PCC_CONFIRMED"
    /\ Cardinality(RowsOf(pcc_log, last.task_id)) = 1
    /\ started = 2
    /\ \A p \in Procs : pc[p] = "idle"

\* C7: a confirm_pcc or inspect_fvs request whose task_id matches no stored
\* activity is answered 404 at once, and every status and the PCC, FVS and
\* NC tables are unchanged.
C7_NotFound ==
    [][ \A k \in {"pcc", "fvs"}, t \in (TaskIds \cup {MissingTaskId}) \ DOMAIN status :
          ReceivedOn(k, t)
             => /\ AnsweredAtOnce
                /\ last'.code = HTTP_NOT_FOUND
                /\ db' = db
      ]_vars

\* C7 witness: a request naming an id that no activity has was answered 404.
C7_Witness ==
    /\ last.kind \in {"pcc", "fvs"}
    /\ last.task_id \notin DOMAIN status
    /\ last.code = HTTP_NOT_FOUND

\* C8: the writes of one invocation become visible together or not at all.
\* A step that makes an FVS event visible also makes the status of that
\* event's result visible, and the NC record of that event exactly when the
\* result is FAIL; a PCC event comes with the status PCC_CONFIRMED; no NC
\* record and no status change becomes visible without its event.  An FVS
\* event that is flushed and not committed is in no visible table, and an
\* invocation that stops after the flush leaves every table and status as
\* it was.
C8_AtomicWrites ==
    [][ /\ fvs_log' # fvs_log =>
             /\ OneAppended(fvs_log, fvs_log')
             /\ LET e == fvs_log'[Len(fvs_log')] IN
                /\ status'[e.task_id] =
                     (IF e.status = "PASS" THEN "INSPECTED_PASS"
                                           ELSE "INSPECTED_FAIL")
                /\ e.status = "FAIL" =>
                     /\ OneAppended(nc_log, nc_log')
                     /\ nc_log'[Len(nc_log')].fvs_id = e.id
                /\ e.status = "PASS" => nc_log' = nc_log
        /\ nc_log' # nc_log => fvs_log' # fvs_log
        /\ pcc_log' # pcc_log =>
             /\ OneAppended(pcc_log, pcc_log')
             /\ status'[pcc_log'[Len(pcc_log')].task_id] = "PCC_CONFIRMED"
        /\ status' # status => (pcc_log' # pcc_log \/ fvs_log' # fvs_log)
        /\ \A p \in Procs :
             pc'[p] = "fvs_flushed" =>
                /\ \A i \in 1..Len(fvs_log') : fvs_log'[i].id # fvs_id'[p]
                /\ \A i \in 1..Len(nc_log') : nc_log'[i].fvs_id # fvs_id'[p]
        /\ \A p \in Procs :
             (Ends(p) /\ last'.code # HTTP_OK) => db' = db
      ]_vars

\* C8 witness: an inspect_fvs invocation has flushed its FVS event (a key
\* was drawn) and then stopped: no FVS event, no NC record, the activity
\* still INSPECTION_PENDING, and nobody running.
C8_Witness ==
    /\ last.kind = "fvs"
    /\ last.code = HTTP_SERVER_ERROR
    /\ next_fvs_id > 1
    /\ fvs_log = <<>>
    /\ nc_log = <<>>
    /\ status[last.task_id] = "INSPECTION_PENDING"
    /\ \A p \in Procs : pc[p] = "idle"

\* C9: nothing stops a handler that has passed its guard.  When its commit
\* comes after another request has already moved the activity out of the
\* status it read, it still answers 200 and appends its event, so the
\* activity then has at least two FVS events (two PCC events for
\* confirm_pcc); an inspect_fvs still writes the status of its own result and
\* its NC record when that result is FAIL.
C9_StaleCommitSucceeds ==
    [][ \A p \in Procs :
          LET t == req[p].task_id IN
          /\ (req[p].kind = "fvs" /\ Ends(p)
                /\ status[t] # "INSPECTION_PENDING")
               => /\ last'.code = HTTP_OK
                  /\ OneAppended(fvs_log, fvs_log')
                  /\ Cardinality(RowsOf(fvs_log', t)) >= 2
                  /\ status'[t] = (IF req[p].status = "PASS"
                                   THEN "INSPECTED_PASS" ELSE "INSPECTED_FAIL")
                  /\ req[p].status = "FAIL" => OneAppended(nc_log, nc_log')
          /\ (req[p].kind = "pcc" /\ Ends(p) /\ status[t] # "PCC_REQUIRED")
               => /\ last'.code = HTTP_OK
                  /\ OneAppended(pcc_log, pcc_log')
                  /\ Cardinality(RowsOf(pcc_log', t)) >= 2
      ]_vars

\* C9 witness: two inspect_fvs requests raced on one activity: it has two
\* FVS events, one PASS and one FAIL, an NC record, and the final status
\* INSPECTED_PASS.
C9_Witness ==
    \E t \in TaskIds :
        /\ Cardinality(RowsOf(fvs_log, t)) = 2
        /\ \E i, j \in RowsOf(fvs_log, t) :
              fvs_log[i].status = "PASS" /\ fvs_log[j].status = "FAIL"
        /\ RowsOf(nc_log, t) # {}
        /\ status[t] = "INSPECTED_PASS"

\* The same race of two confirm_pcc requests: two PCC events for one activity.
C9_PccRace ==
    \E t \in TaskIds : Cardinality(RowsOf(pcc_log, t)) = 2

\* C10: every NC record refers to an FVS event of the table whose result is
\* FAIL and whose task_id and obra_id are the NC's; its origin is FVS and
\* its status ABERTA; no two NC records refer to the same FVS event.
C10_NCRefersToFailedFVS ==
    /\ \A i \in 1..Len(nc_log) :
         /\ nc_log[i].origin = "FVS"
         /\ nc_log[i].status = "ABERTA"
         /\ \E j \in 1..Len(fvs_log) :
               /\ fvs_log[j].id = nc_log[i].fvs_id
               /\ fvs_log[j].status = "FAIL"
               /\ fvs_log[j].task_id = nc_log[i].task_id
               /\ fvs_log[j].obra_id = nc_log[i].obra_id
    /\ \A i, j \in 1..Len(nc_log) :
         nc_log[i].fvs_id = nc_log[j].fvs_id => i = j

\* C10 witness: two NC records, of two failed inspections that were in
\* flight together and committed in the order opposite to their flushes.
C10_Witness ==
    /\ Len(nc_log) = 2
    /\ Len(fvs_log) = 2
    /\ fvs_log[1].id > fvs_log[2].id

\* The status changes of the workflow: one predecessor per event type.
ListedTransitions ==
    {<<"PCC_REQUIRED", "PCC_CONFIRMED">>,
     <<"INSPECTION_PENDING", "INSPECTED_PASS">>,
     <<"INSPECTION_PENDING", "INSPECTED_FAIL">>}

\* C11: whatever requests arrive, a status changes only along PCC_REQUIRED ->
\* PCC_CONFIRMED, INSPECTION_PENDING -> INSPECTED_PASS or INSPECTION_PENDING
\* -> INSPECTED_FAIL, so an activity in PCC_CONFIRMED, READY, INSPECTED_PASS or
\* INSPECTED_FAIL keeps its status; and a step changes the status of no
\* activity but the one its request names.
C11_OnlyListedTransitions ==
    [][ /\ \A t \in TaskIds :
             status'[t] # status[t]
                => <<status[t], status'[t]>> \in ListedTransitions
        /\ \A t \in TaskIds :
             status[t] \in {"PCC_CONFIRMED", "READY",
                            "INSPECTED_PASS", "INSPECTED_FAIL"}
                => status'[t] = status[t]
        /\ \A t \in TaskIds :
             status'[t] # status[t]
                => \E p \in Procs : Ends(p) /\ req[p].task_id = t
        /\ DOMAIN status' = DOMAIN status
      ]_vars

\* C12: with requests running one at a time, every activity is referenced
\* by at most one PCC event, at most one FVS event and at most one NC record;
\* its status is INSPECTED_FAIL exactly when an NC record references it, and
\* INSPECTED_PASS exactly when it has one FVS event and that event's result
\* is PASS.  (Stated of every activity, so also of those that started in
\* INSPECTION_PENDING, the only ones that reach either status.)
C12_SequentialOneEventEach ==
    \A t \in TaskIds :
        /\ Cardinality(RowsOf(pcc_log, t)) <= 1
        /\ Cardinality(RowsOf(fvs_log, t)) <= 1
        /\ Cardinality(RowsOf(nc_log, t)) <= 1
        /\ status[t] = "INSPECTED_FAIL" <=> RowsOf(nc_log, t) # {}
        /\ status[t] = "INSPECTED_PASS" <=>
              /\ Cardinality(RowsOf(fvs_log, t)) = 1
              /\ \A i \in RowsOf(fvs_log, t) : fvs_log[i].status = "PASS"

\* C12 witness: an activity was inspected with result FAIL and then a second
\* inspect_fvs for it was answered 400: it is INSPECTED_FAIL with its one FVS
\* event and its one NC record.
C12_Witness ==
    /\ last.kind = "fvs"
    /\ last.code = HTTP_BAD_REQUEST
    /\ last.task_id \in TaskIds
    /\ status[last.task_id] = "INSPECTED_FAIL"
    /\ Cardinality(RowsOf(fvs_log, last.task_id)) = 1
    /\ Cardinality(RowsOf(nc_log, last.task_id)) = 1
    /\ started = 2

====
